---- MODULE Spec2Model ----
(***************************************************************************)
(* scripts/generate-simple-report.py: generate() reads the clock and the   *)
(* BUILD_NUMBER environment variable, formats a fixed HTML document,       *)
(* writes it to security-report.html through a buffered file object opened *)
(* in mode 'w' inside a with block, and prints one confirmation line.      *)
(*                                                                         *)
(* Strings are TLA+ strings; files are strings of bytes.  Each process has *)
(* its own environment, locals, file object and standard output; the file  *)
(* system is shared by the processes.                                      *)
(***************************************************************************)
EXTENDS Integers, Sequences, FiniteSets

\* ---------------------------------------------------------------- bounds

\* generate() calls one caller makes one after the other (Spec).
MaxCalls == 3

\* Most bytes one raw write() of the buffered writer transfers to the file.
BlockSize == 128

\* ------------------------------------------------------------- constants

Procs == {1, 2}

REPORT == "security-report.html"

SCAN_REPORT == "trivy-report.json"

FileNames == {REPORT, SCAN_REPORT}

BUILD_NUMBER == "BUILD_NUMBER"

JOB_NAME == "JOB_NAME"

DEFAULT_BUILD == "Unknown"

MSG == "Security report generated: security-report.html"

\* Stand-in for the zero byte a write beyond the end of a file leaves behind.
NUL == "~"

\* Values BUILD_NUMBER takes when set: empty, a number, HTML markup.
BuildValues == {"", "42", "<b>7</b>"}

\* The process environments: JOB_NAME always set, BUILD_NUMBER set or not.
Environs ==
  {[n \in {JOB_NAME} |-> "nightly"]} \cup
  {[n \in {JOB_NAME, BUILD_NUMBER} |-> IF n = JOB_NAME THEN "nightly" ELSE v] :
     v \in BuildValues}

\* Readings of the local clock: one with single-digit fields, one without.
Times ==
  { [year |-> 2026, month |-> 1, day |-> 2, hour |-> 3, minute |-> 4, second |-> 5],
    [year |-> 1999, month |-> 12, day |-> 31, hour |-> 23, minute |-> 59, second |-> 58] }

NoTime == [year |-> 0, month |-> 0, day |-> 0, hour |-> 0, minute |-> 0, second |-> 0]

\* ------------------------------------------------------------ pure parts

Digit(d) == SubSeq("0123456789", d + 1, d + 1)

RECURSIVE Dec(_)
Dec(n) == IF n < 10 THEN Digit(n) ELSE Dec(n \div 10) \o Digit(n % 10)

RECURSIVE ZeroPad(_, _)
ZeroPad(s, w) == IF Len(s) >= w THEN s ELSE ZeroPad("0" \o s, w)

\* A field printed without padding, as %-m would.
FieldUnpadded(n, w) == Dec(n)

\* One numeric field of strftime: decimal, zero-padded to its width.
Field(n, w) == ZeroPad(Dec(n), w)

\* strftime('%Y-%m-%d %H:%M:%S')
Strftime(t) ==
  Field(t.year, 4) \o "-" \o Field(t.month, 2) \o "-" \o Field(t.day, 2) \o " " \o
  Field(t.hour, 2) \o ":" \o Field(t.minute, 2) \o ":" \o Field(t.second, 2)

\* os.environ.get(name) or default: an empty value counts as missing.
EnvGetOr(env, name, default) ==
  IF name \in DOMAIN env /\ env[name] # "" THEN env[name] ELSE default

\* os.environ.get(name, ''): the default dropped.
EnvGetNoDefault(env, name, default) ==
  IF name \in DOMAIN env THEN env[name] ELSE ""

\* os.environ.get(name, default)
EnvGet(env, name, default) ==
  IF name \in DOMAIN env THEN env[name] ELSE default

\* os.environ.setdefault(name, default) stores the default when name is unset.
EnvAfterSetdefault(env, name, default) ==
  IF name \in DOMAIN env THEN env
  ELSE [n \in DOMAIN env \cup {name} |-> IF n = name THEN default ELSE env[n]]

\* The environment after os.environ.get: a read leaves it as it was.
EnvAfterGet(env, name, default) == env

\* The f-string of generate(): the text between the triple quotes, the
\* continuation lines with the four spaces they carry in the source.
Html(nowStr, buildStr) ==
  "<html><head><title>DevSecOps Report</title></head><body>\n" \o
  "    <h1>DevSecOps Security Report</h1>\n" \o
  "    <p>Generated: " \o nowStr \o "</p><p>Build: #" \o buildStr \o "</p>\n" \o
  "    <h2>Summary</h2>\n" \o
  "    <ul><li>SAST: see SonarQube</li><li>Container: see trivy-report.json</li><li>DAST: see zap-report.json</li></ul>\n" \o
  "    </body></html>"

RECURSIVE Zeros(_)
Zeros(n) ==
  IF n <= 0 THEN "" ELSE IF n = 1 THEN NUL
  ELSE Zeros(n \div 2) \o Zeros(n - (n \div 2))

Min(a, b) == IF a < b THEN a ELSE b

\* Mode 'r+': the file keeps what it holds when it is opened.
KeepContent(old) == old

\* Mode 'w' (O_CREAT | O_TRUNC): the file is empty after the open.
Truncate(old) == ""

\* write(2) of data at offset off of a file holding content: the bytes
\* under the data are replaced, the bytes after it stay, a gap before it
\* reads as zero bytes.
WriteAt(content, off, data) ==
  (IF off <= Len(content) THEN SubSeq(content, 1, off)
   ELSE content \o Zeros(off - Len(content)))
  \o data \o
  SubSeq(content, off + Len(data) + 1, Len(content))

NoFile == [isopen |-> FALSE, pos |-> 0, buf |-> ""]

\* Leaving the block without closing, as a bare open() would on an error.
ExitLeaked(f) == [f EXCEPT !.buf = ""]

\* __exit__ of the with block on an error: the descriptor is closed.
ExitOnError(f) == [isopen |-> FALSE, pos |-> f.pos, buf |-> ""]

\* An except clause that swallows the error: execution goes on to line 15.
Swallowed == "print"

\* No except clause in generate(): an error leaves the function.
Propagated == "failed"

\* ----------------------------------------------------------------- state

VARIABLES
  pc,        \* pc[p]: where process p is in generate(), "idle" outside it
  budget,    \* budget[p]: calls of generate() process p may still make
  environ,   \* environ[p]: os.environ of process p
  now,       \* now[p]: the clock reading of line 5
  nowStr,    \* nowStr[p]: local now, the formatted time
  build,     \* build[p]: local build
  html,      \* html[p]: local html
  f,         \* f[p]: the file object of the with block
  err,       \* err[p]: the error that left generate(): "none", "open", "write"
  fs,        \* the working directory: file name -> content, absent names absent
  stdout,    \* stdout[p]: the lines the current call has printed
  fwrites,   \* fwrites[p]: calls of f.write the current call has made
  envReads,  \* envReads[p]: environment names the current call has read
  envAtCall, \* envAtCall[p]: environ[p] when the current call began
  fsAtCall,  \* fsAtCall[p]: fs when the current call began
  lastOpen,  \* the process whose open() of the report was the latest, 0: none
  lastWrite, \* the process whose write(2) to the report was the latest, 0: none
  disturbed  \* another process wrote to the report after lastOpen's open()

vars ==
  <<pc, budget, environ, now, nowStr, build, html, f, err, fs, stdout,
    fwrites, envReads, envAtCall, fsAtCall, lastOpen, lastWrite, disturbed>>

locals == <<now, nowStr, build, html>>

ghosts == <<envAtCall, fsAtCall>>

race == <<lastOpen, lastWrite, disturbed>>

Present(dir, name) == name \in DOMAIN dir

\* dir with name holding content (created when it is absent).
Store(dir, name, content) ==
  [n \in DOMAIN dir \cup {name} |-> IF n = name THEN content ELSE dir[n]]

InitCommon ==
  /\ pc = [p \in Procs |-> "idle"]
  /\ environ \in [Procs -> Environs]
  /\ now = [p \in Procs |-> NoTime]
  /\ nowStr = [p \in Procs |-> ""]
  /\ build = [p \in Procs |-> ""]
  /\ html = [p \in Procs |-> ""]
  /\ f = [p \in Procs |-> NoFile]
  /\ err = [p \in Procs |-> "none"]
  /\ fs = [n \in {SCAN_REPORT} |-> "{}"]
  /\ stdout = [p \in Procs |-> <<>>]
  /\ fwrites = [p \in Procs |-> 0]
  /\ envReads = [p \in Procs |-> {}]
  /\ envAtCall = environ
  /\ fsAtCall = [p \in Procs |-> fs]
  /\ lastOpen = 0
  /\ lastWrite = 0
  /\ disturbed = FALSE

\* One caller: process 1 calls generate() again and again, process 2 never.
Init ==
  /\ InitCommon
  /\ budget = [p \in Procs |-> IF p = 1 THEN MaxCalls ELSE 0]
  /\ environ[2] = [n \in {JOB_NAME} |-> "nightly"]

\* Two processes in the same working directory, each running the script
\* once: lines 17-18 call generate() one time per process.
InitConc ==
  /\ InitCommon
  /\ budget = [p \in Procs |-> 1]

\* --------------------------------------------------------------- actions

\* The caller changes the environment between two calls.
SetEnv(p) ==
  /\ pc[p] = "idle"
  /\ budget[p] > 0
  /\ \E e \in Environs : e # environ[p] /\ environ' = [environ EXCEPT ![p] = e]
  /\ UNCHANGED <<pc, budget, locals, f, err, fs, stdout, fwrites, envReads,
                 ghosts, race>>

\* generate() is entered.
Call(p) ==
  /\ pc[p] = "idle"
  /\ budget[p] > 0
  /\ budget' = [budget EXCEPT ![p] = @ - 1]
  /\ pc' = [pc EXCEPT ![p] = "now"]
  /\ now' = [now EXCEPT ![p] = NoTime]
  /\ nowStr' = [nowStr EXCEPT ![p] = ""]
  /\ build' = [build EXCEPT ![p] = ""]
  /\ html' = [html EXCEPT ![p] = ""]
  /\ f' = [f EXCEPT ![p] = NoFile]
  /\ err' = [err EXCEPT ![p] = "none"]
  /\ stdout' = [stdout EXCEPT ![p] = <<>>]
  /\ fwrites' = [fwrites EXCEPT ![p] = 0]
  /\ envReads' = [envReads EXCEPT ![p] = {}]
  /\ envAtCall' = [envAtCall EXCEPT ![p] = environ[p]]
  /\ fsAtCall' = [fsAtCall EXCEPT ![p] = fs]
  /\ UNCHANGED <<environ, fs, race>>

\* Line 5: now = datetime.datetime.now().strftime(...)
ReadClock(p) ==
  /\ pc[p] = "now"
  /\ \E t \in Times :
       /\ now' = [now EXCEPT ![p] = t]
       /\ nowStr' = [nowStr EXCEPT ![p] = Strftime(t)]
  /\ pc' = [pc EXCEPT ![p] = "build"]
  /\ UNCHANGED <<budget, environ, build, html, f, err, fs, stdout, fwrites,
                 envReads, ghosts, race>>

\* Line 6: build = os.environ.get('BUILD_NUMBER', 'Unknown')
GetBuild(p) ==
  /\ pc[p] = "build"
  /\ build' = [build EXCEPT ![p] = EnvGet(environ[p], BUILD_NUMBER, DEFAULT_BUILD)]
  /\ environ' = [environ EXCEPT ![p] = EnvAfterGet(@, BUILD_NUMBER, DEFAULT_BUILD)]
  /\ envReads' = [envReads EXCEPT ![p] = @ \cup {BUILD_NUMBER}]
  /\ pc' = [pc EXCEPT ![p] = "html"]
  /\ UNCHANGED <<budget, now, nowStr, html, f, err, fs, stdout, fwrites,
                 ghosts, race>>

\* Lines 7-12: html = f"""..."""
Format(p) ==
  /\ pc[p] = "html"
  /\ html' = [html EXCEPT ![p] = Html(nowStr[p], build[p])]
  /\ pc' = [pc EXCEPT ![p] = "open"]
  /\ UNCHANGED <<budget, environ, now, nowStr, build, f, err, fs, stdout,
                 fwrites, envReads, ghosts, race>>

\* Line 13: open('security-report.html', 'w') succeeds: the file is created
\* or cut to length zero, the file object starts at offset 0.
OpenOk(p) ==
  /\ pc[p] = "open"
  /\ fs' = Store(fs, REPORT, IF Present(fs, REPORT) THEN Truncate(fs[REPORT]) ELSE "")
  /\ f' = [f EXCEPT ![p] = [isopen |-> TRUE, pos |-> 0, buf |-> ""]]
  /\ pc' = [pc EXCEPT ![p] = "write"]
  /\ lastOpen' = p
  /\ disturbed' = FALSE
  /\ UNCHANGED <<budget, environ, locals, err, stdout, fwrites, envReads, ghosts,
                 lastWrite>>

\* Line 13: open() raises (permission denied, no such directory): nothing
\* is opened and nothing in the directory changes.
OpenFail(p) ==
  /\ pc[p] = "open"
  /\ err' = [err EXCEPT ![p] = "open"]
  /\ pc' = [pc EXCEPT ![p] = Propagated]
  /\ UNCHANGED <<budget, environ, locals, f, fs, stdout, fwrites, envReads,
                 ghosts, race>>

\* Line 14: f.write(html) hands the document to the buffered writer.
Write(p) ==
  /\ pc[p] = "write"
  /\ f' = [f EXCEPT ![p].buf = html[p]]
  /\ fwrites' = [fwrites EXCEPT ![p] = @ + 1]
  /\ pc' = [pc EXCEPT ![p] = "exit"]
  /\ UNCHANGED <<budget, environ, locals, err, fs, stdout, envReads, ghosts, race>>

\* Lines 13-14: the buffered writer passes its next block to write(2), at
\* the offset of this file object.
Flush(p) ==
  /\ pc[p] = "exit"
  /\ f[p].buf # ""
  /\ Present(fs, REPORT)
  /\ LET n == Min(BlockSize, Len(f[p].buf))
         block == SubSeq(f[p].buf, 1, n)
     IN /\ fs' = Store(fs, REPORT, WriteAt(fs[REPORT], f[p].pos, block))
        /\ f' = [f EXCEPT ![p].pos = @ + n,
                          ![p].buf = SubSeq(f[p].buf, n + 1, Len(f[p].buf))]
  /\ lastWrite' = p
  /\ disturbed' = (disturbed \/ lastOpen # p)
  /\ UNCHANGED <<budget, environ, locals, pc, err, stdout, fwrites, envReads,
                 ghosts, lastOpen>>

\* Lines 13-14: write(2) raises (disk full, I/O error) with part of the
\* document still in the buffer; the with block closes the file and the
\* error goes on to the caller.
FlushFail(p) ==
  /\ pc[p] = "exit"
  /\ f[p].buf # ""
  /\ f' = [f EXCEPT ![p] = ExitOnError(@)]
  /\ err' = [err EXCEPT ![p] = "write"]
  /\ pc' = [pc EXCEPT ![p] = Propagated]
  /\ UNCHANGED <<budget, environ, locals, fs, stdout, fwrites, envReads,
                 ghosts, race>>

\* Line 13, end of the with block: everything is flushed, the file is closed.
Close(p) ==
  /\ pc[p] = "exit"
  /\ f[p].buf = ""
  /\ f' = [f EXCEPT ![p].isopen = FALSE]
  /\ pc' = [pc EXCEPT ![p] = "print"]
  /\ UNCHANGED <<budget, environ, locals, err, fs, stdout, fwrites, envReads,
                 ghosts, race>>

\* The print moved into the with block, ahead of f.write.
PrintInsideWith(p) ==
  /\ pc[p] = "write"
  /\ stdout[p] = <<>>
  /\ stdout' = [stdout EXCEPT ![p] = Append(@, MSG)]
  /\ UNCHANGED <<pc, budget, environ, locals, f, err, fs, fwrites, envReads,
                 ghosts, race>>

\* Line 15: print('Security report generated: security-report.html')
PrintConfirmation(p) ==
  /\ pc[p] = "print"
  /\ stdout' = [stdout EXCEPT ![p] = Append(@, MSG)]
  /\ pc' = [pc EXCEPT ![p] = "done"]
  /\ UNCHANGED <<budget, environ, locals, f, err, fs, fwrites, envReads,
                 ghosts, race>>

\* Lines 17-18: generate() is left, normally or by the error; the caller
\* has control again.
Return(p) ==
  /\ pc[p] \in {"done", "failed"}
  /\ pc' = [pc EXCEPT ![p] = "idle"]
  /\ UNCHANGED <<budget, environ, locals, f, err, fs, stdout, fwrites,
                 envReads, ghosts, race>>

Next ==
  \E p \in Procs :
    \/ SetEnv(p)
    \/ Call(p)
    \/ ReadClock(p)
    \/ GetBuild(p)
    \/ Format(p)
    \/ OpenOk(p)
    \/ OpenFail(p)
    \/ Write(p)
    \/ Flush(p)
    \/ FlushFail(p)
    \/ Close(p)
    \/ PrintConfirmation(p)
    \/ Return(p)

\* One caller, calls one after the other.
Spec == Init /\ [][Next]_vars

\* Two processes, calls interleaved.
SpecConc == InitConc /\ [][Next]_vars

\* ------------------------------------------------------- claim vocabulary

\* t occurs in s.
Contains(s, t) ==
  \E i \in 1..(Len(s) - Len(t) + 1) : SubSeq(s, i, i + Len(t) - 1) = t

\* c is a prefix of d and shorter than d.
IsProperPrefix(c, d) == Len(c) < Len(d) /\ c = SubSeq(d, 1, Len(c))

IsDigit(c) == \E d \in 0..9 : c = Digit(d)

\* s has the form YYYY-MM-DD HH:MM:SS.
IsTimestamp(s) ==
  /\ Len(s) = 19
  /\ \A i \in 1..19 :
       LET c == SubSeq(s, i, i)
       IN CASE i \in {5, 8} -> c = "-"
            [] i = 11 -> c = " "
            [] i \in {14, 17} -> c = ":"
            [] OTHER -> IsDigit(c)

\* The six lines of the output template of the specification, section 6.
TemplateLines(timestamp, buildId) ==
  << "<html><head><title>DevSecOps Report</title></head><body>",
     "<h1>DevSecOps Security Report</h1>",
     "<p>Generated: " \o timestamp \o "</p><p>Build: #" \o buildId \o "</p>",
     "<h2>Summary</h2>",
     "<ul><li>SAST: see SonarQube</li><li>Container: see trivy-report.json</li><li>DAST: see zap-report.json</li></ul>",
     "</body></html>" >>

\* The lines joined by a line feed followed by sep.
Joined(lines, sep) ==
  lines[1] \o "\n" \o sep \o lines[2] \o "\n" \o sep \o lines[3] \o "\n" \o sep \o
  lines[4] \o "\n" \o sep \o lines[5] \o "\n" \o sep \o lines[6]

Succeeded(p) == pc[p] = "done"

Failed(p) == pc[p] = "failed"

BuildUnset(p) == BUILD_NUMBER \notin DOMAIN envAtCall[p]

BuildSetTo(p, v) == ~BuildUnset(p) /\ envAtCall[p][BUILD_NUMBER] = v

ReportHolds(p, text) == Present(fs, REPORT) /\ Contains(fs[REPORT], text)

\* ------------------------------------------------------------------ C1

\* C1 as stated: after a successful generate(), the build identifier after
\* 'Build: #' is 'Unknown' whenever BUILD_NUMBER is unset or set to the
\* empty string.
C1_UnknownWhenUnsetOrEmpty ==
  \A p \in Procs :
    Succeeded(p) /\ (BuildUnset(p) \/ BuildSetTo(p, "")) =>
      ReportHolds(p, "Build: #Unknown</p>")

\* C1 amended: after a successful generate(), the build identifier after
\* 'Build: #' is 'Unknown' whenever BUILD_NUMBER is unset; when it is set to
\* the empty string the identifier is empty ('Build: #' is followed by the
\* closing tag).
C1_UnknownWhenUnset ==
  \A p \in Procs :
    /\ Succeeded(p) /\ BuildUnset(p) => ReportHolds(p, "Build: #Unknown</p>")
    /\ Succeeded(p) /\ BuildSetTo(p, "") =>
         ReportHolds(p, "Build: #</p>") /\ ~ReportHolds(p, "Unknown")

C1_Witness ==
  \E p \in Procs :
    Succeeded(p) /\ BuildUnset(p) /\ ReportHolds(p, "Build: #Unknown</p>")

\* ------------------------------------------------------------------ C2

\* C2: for every value v BUILD_NUMBER is set to when generate() is called,
\* the empty string and HTML markup included, a successful generate() leaves
\* the report holding 'Build: #' followed at once by v as it is, up to the
\* closing tag, with the value the environment had when the call began.
C2_BuildVerbatim ==
  \A p \in Procs : \A v \in BuildValues :
    Succeeded(p) /\ BuildSetTo(p, v) =>
      ReportHolds(p, "<p>Build: #" \o v \o "</p>\n")

C2_Witness ==
  \E p \in Procs :
    Succeeded(p) /\ BuildSetTo(p, "<b>7</b>") /\
      ReportHolds(p, "Build: #<b>7</b></p>")

\* ------------------------------------------------------------------ C3

\* C3: after any sequence of successful generate() calls of one caller the
\* report is exactly the document of the latest call, whatever the earlier
\* file held and however long it was.
C3_LastCallSupersedes ==
  \A p \in Procs :
    Succeeded(p) => Present(fs, REPORT) /\ fs[REPORT] = html[p]

\* An earlier, longer report was in place when the call began.
C3_Witness ==
  \E p \in Procs :
    /\ Succeeded(p)
    /\ Present(fsAtCall[p], REPORT)
    /\ Len(fsAtCall[p][REPORT]) > Len(html[p])
    /\ fs[REPORT] = html[p]

\* ------------------------------------------------------------------ C4

\* C4: when opening or writing the report fails, generate() does not catch
\* the error: the call ends in the failure state and the confirmation line
\* is not printed.
C4_ErrorPropagates ==
  \A p \in Procs :
    err[p] # "none" => pc[p] \in {"failed", "idle"} /\ stdout[p] = <<>>

C4_Witness ==
  \E p \in Procs : err[p] = "write" /\ Failed(p) /\ stdout[p] = <<>>

\* ------------------------------------------------------------------ C5

\* C5: a successful generate() prints exactly one line, the confirmation,
\* and the line is printed only once the whole document is in the report
\* and the file is closed.
C5_OneLineAfterClose ==
  \A p \in Procs :
    /\ Succeeded(p) => stdout[p] = <<MSG>>
    /\ stdout[p] # <<>> =>
         /\ ~f[p].isopen
         /\ f[p].buf = ""
         /\ Present(fs, REPORT)
         /\ fs[REPORT] = html[p]

C5_Witness ==
  \E p \in Procs : Succeeded(p) /\ stdout[p] = <<MSG>> /\ ~f[p].isopen

\* ------------------------------------------------------------------ C6

\* C6: the file handle generate() opened is closed in every terminal state
\* of the call, after a complete write and after a write that failed
\* partway.
C6_HandleReleased ==
  \A p \in Procs :
    pc[p] \in {"print", "done", "failed", "idle"} => ~f[p].isopen

\* A write failed after part of the document had reached the file.
C6_Witness ==
  \E p \in Procs :
    Failed(p) /\ err[p] = "write" /\ f[p].pos > 0 /\ ~f[p].isopen

\* ------------------------------------------------------------------ C7

\* C7 as stated: when concurrent invocations all succeed, the report is
\* exactly the complete document of the invocation that wrote last.
C7_LastWriterWins ==
  (\A p \in Procs : Succeeded(p)) =>
    Present(fs, REPORT) /\ fs[REPORT] = html[lastWrite]

\* C7 amended: the report is exactly the complete document of the
\* invocation that opened the file last, provided no other invocation
\* wrote to the file after that open.
C7_LastOpenerWinsUndisturbed ==
  \A p \in Procs :
    Succeeded(p) /\ lastOpen = p /\ ~disturbed =>
      Present(fs, REPORT) /\ fs[REPORT] = html[p]

\* Both invocations succeeded with different documents.
C7_Witness ==
  /\ \A p \in Procs : Succeeded(p)
  /\ html[1] # html[2]
  /\ Len(html[lastOpen]) < Len(html[3 - lastOpen])
  /\ ~disturbed
  /\ fs[REPORT] = html[lastOpen]

\* ------------------------------------------------------------------ C8

\* C8 as stated: the report of a successful generate() equals the six-line
\* template character for character, no line carrying anything more than
\* the template shows, the timestamp 19 characters YYYY-MM-DD HH:MM:SS.
C8_TemplateExact ==
  \A p \in Procs :
    Succeeded(p) =>
      /\ Present(fs, REPORT)
      /\ fs[REPORT] = Joined(TemplateLines(nowStr[p], build[p]), "")
      /\ IsTimestamp(nowStr[p])

\* C8 amended: the report equals the six-line template except that each of
\* the lines 2 to 6 is preceded by four spaces; nothing else is added, no
\* line feed follows the last line, and the timestamp is 19 characters
\* YYYY-MM-DD HH:MM:SS, zero-padded.
C8_TemplateIndented ==
  \A p \in Procs :
    Succeeded(p) =>
      /\ Present(fs, REPORT)
      /\ fs[REPORT] = Joined(TemplateLines(nowStr[p], build[p]), "    ")
      /\ IsTimestamp(nowStr[p])

\* A clock reading whose fields need padding.
C8_Witness ==
  \E p \in Procs :
    /\ Succeeded(p)
    /\ now[p].month < 10 /\ now[p].second < 10
    /\ IsTimestamp(nowStr[p])
    /\ Contains(fs[REPORT], "Generated: " \o nowStr[p] \o "</p>")

\* ------------------------------------------------------------------ C9

\* C9: after a generate() that failed, either the open failed and the
\* report is as it was before the call (absent or unchanged), or the write
\* failed, the earlier content is gone and the report is a proper prefix
\* of the new document, possibly empty.
C9_FailureLeavesOldOrPrefix ==
  \A p \in Procs :
    Failed(p) =>
      /\ err[p] \in {"open", "write"}
      /\ err[p] = "open" =>
           /\ Present(fs, REPORT) = Present(fsAtCall[p], REPORT)
           /\ Present(fs, REPORT) => fs[REPORT] = fsAtCall[p][REPORT]
      /\ err[p] = "write" =>
           /\ Present(fs, REPORT)
           /\ IsProperPrefix(fs[REPORT], html[p])

\* A write failed partway over an earlier report.
C9_Witness ==
  \E p \in Procs :
    /\ Failed(p) /\ err[p] = "write"
    /\ Present(fsAtCall[p], REPORT) /\ Len(fsAtCall[p][REPORT]) > 0
    /\ Len(fs[REPORT]) > 0
    /\ IsProperPrefix(fs[REPORT], html[p])

\* ------------------------------------------------------------------ C10

\* C10: during and after every generate() call, successful or failed, the
\* environment is as it was when the call began, no environment variable
\* but BUILD_NUMBER has been read, every file but the report is as it was,
\* and at most one f.write and one line of output have been made.
C10_Frame ==
  \A p \in Procs :
    pc[p] # "idle" =>
      /\ environ[p] = envAtCall[p]
      /\ envReads[p] \subseteq {BUILD_NUMBER}
      /\ \A n \in FileNames \ {REPORT} :
           /\ Present(fs, n) = Present(fsAtCall[p], n)
           /\ Present(fs, n) => fs[n] = fsAtCall[p][n]
      /\ DOMAIN fs \subseteq FileNames
      /\ fwrites[p] <= 1
      /\ Len(stdout[p]) <= 1

\* A call that ran to its end with BUILD_NUMBER unset.
C10_Witness ==
  \E p \in Procs :
    /\ Succeeded(p)
    /\ BUILD_NUMBER \notin DOMAIN environ[p]
    /\ envReads[p] = {BUILD_NUMBER}
    /\ fwrites[p] = 1

====
